---- MODULE Spec2Model ----
(***************************************************************************)
(* Jormungandr-Journey: the voxel grid, the snake and the tick of the      *)
(* game (src/src/game.rs) and the host's frame loop (src/src/main.rs).     *)
(*                                                                         *)
(* A coordinate (Vec3) is a triple <<x, y, z>>.  A cell and a direction    *)
(* are strings carrying the names of the enum variants.  Option::None is   *)
(* the string "None".  The grid's Vec<Cell> is a sequence: the cell of     *)
(* index idx is cells[idx + 1].  The snake's VecDeque is a sequence whose  *)
(* first element is the front (the head).                                  *)
(***************************************************************************)
EXTENDS Integers, Sequences, FiniteSets, TLC

VARIABLES
    dimensions,       \* Grid.dimensions
    cells,            \* Grid.cells
    direction,        \* Snake.direction
    body,             \* Snake.body, front first
    result,           \* what the last call of Grid.set or GameState.update returned
    dir_held_player,  \* the direction handed to the last update
    hist,             \* the inputs of the updates so far, while they follow ScenarioInputs
    level,            \* the name of the level the game was created on
    set_args,         \* the arguments of the Grid.set call made on a grid made on its own
    pencil,           \* the draw_char calls of the last Grid.draw, in order
    events,           \* the key events since the last frame (last_key_events)
    running           \* the host loop has not been stopped

vars == <<dimensions, cells, direction, body, result, dir_held_player, hist,
          level, set_args, pencil, events, running>>

(***************************************************************************)
(* Bounds of the model.                                                    *)
(***************************************************************************)
\* Update is not called on a snake longer than this.
MaxLen == 3
\* Each dimension of a grid made on its own is in 1..MaxDim.
MaxDim == 2
\* At most this many key events between two frames.
MaxEvents == 2

(***************************************************************************)
(* Enumerations.                                                           *)
(***************************************************************************)
Cell == {"Void", "Empty", "Block", "Food"}

Direction == {"North", "South", "West", "East", "Up", "Down", "None"}

\* ruscii's keys: the ones the program names and one of the others.
Key == {"Up", "Down", "Left", "Right", "Space", "Esc", "Enter"}

\* ruscii's KeyEvent
KeyEvent == [kind : {"Pressed", "Released"}, key : Key]

(***************************************************************************)
(* Coordinate utilities.                                                   *)
(***************************************************************************)
\* contains(coord, dimensions)
contains(coord, dims) ==
    /\ 0 <= coord[1] /\ coord[1] < dims[1]
    /\ 0 <= coord[2] /\ coord[2] < dims[2]
    /\ 0 <= coord[3] /\ coord[3] < dims[3]

\* Grid::coord_to_index: x runs fastest, then y, then z.
coord_to_index(dims, coord) ==
    coord[3] * dims[2] * dims[1] + coord[2] * dims[1] + coord[1]

\* index_to_coord as it would be without the wrap of y at my.
index_to_coord_no_wrap(dims, idx) ==
    << idx % dims[1], idx \div dims[1], idx \div (dims[1] * dims[2]) >>

\* Grid::index_to_coord
index_to_coord(dims, idx) ==
    << idx % dims[1], (idx \div dims[1]) % dims[2], idx \div (dims[1] * dims[2]) >>

\* coord_to_screen
coord_to_screen(coord) ==
    << (coord[1] - coord[2]) * 2, (coord[1] + coord[2]) - coord[3] >>

\* Add as it would be with the four horizontal deltas reversed.
AddMirrored(coord, dir) ==
    LET d == CASE dir = "North" -> <<0, 1, 0>>
               [] dir = "South" -> <<0, -1, 0>>
               [] dir = "West"  -> <<1, 0, 0>>
               [] dir = "East"  -> <<-1, 0, 0>>
               [] dir = "Up"    -> <<0, 0, 1>>
               [] dir = "Down"  -> <<0, 0, -1>>
               [] OTHER         -> <<0, 0, 0>>
    IN  << coord[1] + d[1], coord[2] + d[2], coord[3] + d[3] >>

\* impl Add<Direction> for Vec3
Add(coord, dir) ==
    LET d == CASE dir = "North" -> <<0, -1, 0>>
               [] dir = "South" -> <<0, 1, 0>>
               [] dir = "West"  -> <<-1, 0, 0>>
               [] dir = "East"  -> <<1, 0, 0>>
               [] dir = "Up"    -> <<0, 0, 1>>
               [] dir = "Down"  -> <<0, 0, -1>>
               [] OTHER         -> <<0, 0, 0>>
    IN  << coord[1] + d[1], coord[2] + d[2], coord[3] + d[3] >>

(***************************************************************************)
(* Grid.                                                                   *)
(***************************************************************************)
\* Grid::empty
GridEmpty(dims) == [i \in 1..(dims[1] * dims[2] * dims[3]) |-> "Empty"]

\* Grid::get as it would be if a Void cell were returned like any other.
GridGetVoidVisible(cs, dims, coord) ==
    IF contains(coord, dims)
    THEN cs[coord_to_index(dims, coord) + 1]
    ELSE "None"

\* Grid::get: None out of bounds and on a Void cell.
GridGet(cs, dims, coord) ==
    IF contains(coord, dims) /\ cs[coord_to_index(dims, coord) + 1] # "Void"
    THEN cs[coord_to_index(dims, coord) + 1]
    ELSE "None"

\* Grid::set as it would be if it tested the flat index, not each component.
GridSetIndexChecked(cs, dims, coord, cell) ==
    IF 0 <= coord_to_index(dims, coord) /\ coord_to_index(dims, coord) < Len(cs)
    THEN [ok |-> TRUE,
          cells |-> [cs EXCEPT ![coord_to_index(dims, coord) + 1] = cell]]
    ELSE [ok |-> FALSE, cells |-> cs]

\* Grid::set: the new cells and whether the call returned Ok.
GridSet(cs, dims, coord, cell) ==
    IF contains(coord, dims)
    THEN [ok |-> TRUE,
          cells |-> [cs EXCEPT ![coord_to_index(dims, coord) + 1] = cell]]
    ELSE [ok |-> FALSE, cells |-> cs]

\* Cell::to_char
to_char(cell) ==
    CASE cell = "Void"  -> "V"
      [] cell = "Empty" -> " "
      [] cell = "Block" -> "W"
      [] cell = "Food"  -> "F"

\* impl Draw for Grid: one draw_char per stored cell, in index order.
GridDraw(cs, dims) ==
    [i \in 1..Len(cs) |->
        [c |-> to_char(cs[i]),
         at |-> coord_to_screen(index_to_coord(dims, i - 1))]]

(***************************************************************************)
(* Snake.                                                                  *)
(***************************************************************************)
\* Snake::new
SnakeNew(pos) == [direction |-> "None", body |-> <<pos>>]

\* Snake::head
snake_head(b) == b[1]

\* move_to as it would be without the pop of the back.
MoveToNoPop(b, target, growing) == <<target>> \o b

\* move_to as it would be if a plain move popped the tail without pushing the
\* target.
MoveToPopOnly(b, target, growing) ==
    IF growing THEN <<target>> \o b ELSE SubSeq(b, 1, Len(b) - 1)

\* Snake::move_to
MoveTo(b, target, growing) ==
    IF growing
    THEN <<target>> \o b
    ELSE SubSeq(<<target>> \o b, 1, Len(b))

\* is_superlapping as it would be if it compared neighbours only.
IsSuperlappingNeighbours(b) == \E i \in 1..(Len(b) - 1) : b[i] = b[i + 1]

\* Snake::is_superlapping
IsSuperlapping(b) == \E i, j \in 1..Len(b) : i < j /\ b[i] = b[j]

\* impl Draw for Snake: one 'S' per segment, front to back.
SnakeDraw(b) ==
    [i \in 1..Len(b) |-> [c |-> "S", at |-> coord_to_screen(b[i])]]

(***************************************************************************)
(* GameState.                                                              *)
(***************************************************************************)
\* The value update returns: Ok, or a GameError with its two fields.
Ok == [kind |-> "Ok", head |-> <<>>, attempted_move |-> <<>>]

Err(kind, h, attempted) == [kind |-> kind, head |-> h, attempted_move |-> attempted]

\* No call has returned yet.
NotCalled == [kind |-> "NotCalled", head |-> <<>>, attempted_move |-> <<>>]

\* Grid.set has not been called.
NoArgs == <<>>

\* FallCell as it would be without the arm for a Block below.
FallCellAlwaysLower(cell, below) ==
    IF below = "None" THEN "None" ELSE below

\* FallCell as it would be if nothing below the destination held the snake up.
FallCellNothingHolds(cell, below) ==
    IF below \in {"Block", "None"} THEN cell ELSE below

\* FallCell as it would be if an unsupported move were decided on the
\* destination's own cell.
FallCellOwnCell(cell, below) ==
    IF below = "None" THEN "None" ELSE cell

\* GameState::update, the match on the cell under next_head: the cell type the
\* move is decided on, or "None" when the snake falls out of the map.
FallCell(cell, below) ==
    CASE below = "Block" -> cell
      [] below = "None"  -> "None"
      [] OTHER           -> below

\* Collide as it would be if the move were made before the destination is looked at.
CollideAfterMove(cs, b, dir, next_head) ==
    [cells |-> cs, body |-> MoveTo(b, next_head, FALSE), direction |-> dir,
     result |-> Err("Collision", snake_head(b), next_head)]

\* GameState::update, the else branch: Collision, nothing moved.
Collide(cs, b, dir, next_head) ==
    [cells |-> cs, body |-> b, direction |-> dir,
     result |-> Err("Collision", snake_head(b), next_head)]

\* Enter as it would be if Cannibalism were returned with the move undone.
EnterUndoesCannibalism(cs, dims, b, dir, next_head, cell) ==
    LET growing == (cell = "Food")
        moved   == MoveTo(b, next_head, growing)
        set     == IF growing
                   THEN GridSet(cs, dims, next_head, "Empty")
                   ELSE [ok |-> TRUE, cells |-> cs]
    IN  IF cell \notin {"Empty", "Food"}
        THEN [cells |-> cs, body |-> b, direction |-> dir,
              result |-> Err("Unreachable", snake_head(b), next_head)]
        ELSE IF ~set.ok
        THEN [cells |-> set.cells, body |-> moved, direction |-> dir,
              result |-> Err("OutOfBounds", snake_head(b), next_head)]
        ELSE IF IsSuperlapping(moved)
        THEN [cells |-> cs, body |-> b, direction |-> dir,
              result |-> Err("Cannibalism", snake_head(moved), next_head)]
        ELSE [cells |-> set.cells, body |-> moved, direction |-> dir,
              result |-> Ok]

\* Enter as it would be if a growing move reset the cell below the
\* destination when that is the cell the move was decided on.
EnterResetsLower(cs, dims, b, dir, next_head, cell) ==
    LET growing == (cell = "Food")
        moved   == MoveTo(b, next_head, growing)
        eaten   == IF GridGet(cs, dims, Add(next_head, "Down")) = "Food"
                   THEN Add(next_head, "Down")
                   ELSE next_head
        set     == IF growing
                   THEN GridSet(cs, dims, eaten, "Empty")
                   ELSE [ok |-> TRUE, cells |-> cs]
    IN  IF cell \notin {"Empty", "Food"}
        THEN [cells |-> cs, body |-> b, direction |-> dir,
              result |-> Err("Unreachable", snake_head(b), next_head)]
        ELSE IF ~set.ok
        THEN [cells |-> set.cells, body |-> moved, direction |-> dir,
              result |-> Err("OutOfBounds", snake_head(b), next_head)]
        ELSE IF IsSuperlapping(moved)
        THEN [cells |-> set.cells, body |-> moved, direction |-> dir,
              result |-> Err("Cannibalism", snake_head(moved), next_head)]
        ELSE [cells |-> set.cells, body |-> moved, direction |-> dir,
              result |-> Ok]

\* GameState::update, the branch of an enterable next_head whose resolved cell
\* type is `cell`: the move, the reset of an eaten cell, the cannibalism check.
Enter(cs, dims, b, dir, next_head, cell) ==
    LET growing == (cell = "Food")
        moved   == MoveTo(b, next_head, growing)
        set     == IF growing
                   THEN GridSet(cs, dims, next_head, "Empty")
                   ELSE [ok |-> TRUE, cells |-> cs]
    IN  IF cell \notin {"Empty", "Food"}
        THEN \* unreachable!()
             [cells |-> cs, body |-> b, direction |-> dir,
              result |-> Err("Unreachable", snake_head(b), next_head)]
        ELSE IF ~set.ok
        THEN \* the ? on grid.set
             [cells |-> set.cells, body |-> moved, direction |-> dir,
              result |-> Err("OutOfBounds", snake_head(b), next_head)]
        ELSE IF IsSuperlapping(moved)
        THEN [cells |-> set.cells, body |-> moved, direction |-> dir,
              result |-> Err("Cannibalism", snake_head(moved), next_head)]
        ELSE [cells |-> set.cells, body |-> moved, direction |-> dir,
              result |-> Ok]

\* UpdateStep as it would be if an input of None stopped the snake.
UpdateStepNoneStops(cs, dims, b, heading, dir_held) ==
    LET dir       == dir_held
        next_head == Add(snake_head(b), dir)
        cell      == GridGet(cs, dims, next_head)
        resolved  == FallCell(cell, GridGet(cs, dims, Add(next_head, "Down")))
    IN  IF cell # "None" /\ cell # "Block"
        THEN IF resolved = "None"
             THEN [cells |-> cs, body |-> b, direction |-> dir,
                   result |-> Err("Fell", snake_head(b), next_head)]
             ELSE Enter(cs, dims, b, dir, next_head, resolved)
        ELSE Collide(cs, b, dir, next_head)

\* UpdateStep as it would be if only None, not Block, barred the destination.
UpdateStepBlockEnterable(cs, dims, b, heading, dir_held) ==
    LET dir       == IF dir_held = "None" THEN heading ELSE dir_held
        next_head == Add(snake_head(b), dir)
        cell      == GridGet(cs, dims, next_head)
        resolved  == FallCell(cell, GridGet(cs, dims, Add(next_head, "Down")))
    IN  IF cell # "None"
        THEN IF resolved = "None"
             THEN [cells |-> cs, body |-> b, direction |-> dir,
                   result |-> Err("Fell", snake_head(b), next_head)]
             ELSE Enter(cs, dims, b, dir, next_head, resolved)
        ELSE Collide(cs, b, dir, next_head)

\* GameState::update as a function of the game and the input: the game after
\* the call and the value returned.
UpdateStep(cs, dims, b, heading, dir_held) ==
    LET dir       == IF dir_held = "None" THEN heading ELSE dir_held
        next_head == Add(snake_head(b), dir)
        cell      == GridGet(cs, dims, next_head)
        resolved  == FallCell(cell, GridGet(cs, dims, Add(next_head, "Down")))
    IN  IF cell # "None" /\ cell # "Block"
        THEN IF resolved = "None"
             THEN [cells |-> cs, body |-> b, direction |-> dir,
                   result |-> Err("Fell", snake_head(b), next_head)]
             ELSE Enter(cs, dims, b, dir, next_head, resolved)
        ELSE Collide(cs, b, dir, next_head)

\* GameState::new
GameStateNew(starting_pos, level_cells) ==
    [cells |-> level_cells,
     direction |-> SnakeNew(starting_pos).direction,
     body |-> SnakeNew(starting_pos).body]

\* impl Draw for GameState: the grid, then the snake over it.
GameDraw(cs, dims, b) == GridDraw(cs, dims) \o SnakeDraw(b)

(***************************************************************************)
(* Levels.                                                                 *)
(***************************************************************************)
\* main, the two loops that lay the floor: cell k of the layer z = 0 onwards.
RECURSIVE SetFloor(_, _, _)
SetFloor(cs, dims, k) ==
    IF k >= dims[1] * dims[2]
    THEN cs
    ELSE SetFloor(GridSet(cs, dims, <<k \div dims[2], k % dims[2], 0>>, "Block").cells,
                  dims, k + 1)

\* main, the level it builds on a grid of the given dimensions: an empty grid,
\* Food in the middle of layer 1, Block on all of layer 0.
MainGrid(dims) ==
    SetFloor(GridSet(GridEmpty(dims), dims,
                     <<dims[1] \div 2, dims[2] \div 2, 1>>, "Food").cells,
             dims, 0)

\* A hand-built level of 3 x 2 x 3 cells (Grid::new), layer by layer from
\* z = 0, row by row from y = 0: Food over Empty, Empty over Food, Void.
TowerCells ==
    << "Block", "Food",  "Void",
       "Block", "Empty", "Block",

       "Empty", "Empty", "Empty",
       "Food",  "Food",  "Empty",

       "Empty", "Empty", "Void",
       "Block", "Empty", "Food" >>

\* The levels a game is created on, each with the snake's starting position.
\* "scenario" is the 5 x 5 x 2 level of the end-to-end scenario.
Levels ==
    [scenario |-> [dimensions |-> <<5, 5, 2>>, cells |-> MainGrid(<<5, 5, 2>>),
                   start |-> <<0, 0, 1>>],
     cube     |-> [dimensions |-> <<3, 3, 3>>, cells |-> MainGrid(<<3, 3, 3>>),
                   start |-> <<0, 0, 1>>],
     tower    |-> [dimensions |-> <<3, 2, 3>>, cells |-> TowerCells,
                   start |-> <<0, 0, 1>>]]

\* The inputs of the end-to-end scenario.
ScenarioInputs == <<"East", "East", "South", "South", "East">>

\* hist once the inputs given have left the scenario.
Forgotten == <<"...">>

(***************************************************************************)
(* The game as a library: any level, any sequence of update calls.         *)
(***************************************************************************)
\* Every level of 2 x 1 x 2 cells (Grid::new with any cells), the snake
\* starting on any of its coordinates.
SmallDimensions == <<2, 1, 2>>

SmallCells == [1..4 -> Cell]

SmallStarts == {<<x, 0, z>> : x \in 0..1, z \in 0..1}

Init ==
    /\ \/ /\ level \in DOMAIN Levels
          /\ dimensions = Levels[level].dimensions
          /\ cells = GameStateNew(Levels[level].start, Levels[level].cells).cells
          /\ direction = GameStateNew(Levels[level].start, Levels[level].cells).direction
          /\ body = GameStateNew(Levels[level].start, Levels[level].cells).body
       \/ /\ level = "small"
          /\ dimensions = SmallDimensions
          /\ \E cs \in SmallCells, start \in SmallStarts :
                 /\ cells = GameStateNew(start, cs).cells
                 /\ direction = GameStateNew(start, cs).direction
                 /\ body = GameStateNew(start, cs).body
    /\ result = NotCalled
    /\ dir_held_player = "None"
    /\ hist = <<>>
    /\ set_args = NoArgs
    /\ pencil = <<>>
    /\ events = <<>>
    /\ running = TRUE

\* One call update(d) on the game.
Update(d) ==
    /\ Len(body) <= MaxLen
    /\ LET r == UpdateStep(cells, dimensions, body, direction, d)
       IN  /\ cells' = r.cells
           /\ body' = r.body
           /\ direction' = r.direction
           /\ result' = r.result
    /\ dir_held_player' = d
    /\ UNCHANGED <<dimensions, level>>

Tick ==
    \E d \in Direction :
        /\ Update(d)
        /\ hist' = IF /\ hist # Forgotten
                      /\ Len(hist) < Len(ScenarioInputs)
                      /\ d = ScenarioInputs[Len(hist) + 1]
                   THEN Append(hist, d)
                   ELSE Forgotten
        /\ UNCHANGED <<set_args, pencil, events, running>>

Next == Tick

Spec == Init /\ [][Next]_vars

(***************************************************************************)
(* The grid on its own: a grid is made (Grid::empty, Grid::new), Grid.set  *)
(* is called on it with any coordinate and cell, and it is drawn.          *)
(***************************************************************************)
\* The dimensions of the grids made.
GridDimensions ==
    {<<mx, my, mz>> : mx \in 1..MaxDim, my \in 1..MaxDim, mz \in 1..MaxDim}

\* The coordinates handed to Grid.set: on each axis from one below 0 to the
\* dimension itself.
SetCoords(dims) ==
    {<<x, y, z>> : x \in (-1)..dims[1], y \in (-1)..dims[2], z \in (-1)..dims[3]}

\* The cells handed to Grid::new for a grid of every cell type: Void, Empty,
\* Block, Food and over again, in index order.
Striped(dims) ==
    [i \in 1..(dims[1] * dims[2] * dims[3]) |->
        <<"Void", "Empty", "Block", "Food">>[((i - 1) % 4) + 1]]

InitGrid ==
    /\ dimensions \in GridDimensions
    /\ cells \in {GridEmpty(dimensions), Striped(dimensions)}
                 \cup (IF dimensions[3] >= 2 THEN {MainGrid(dimensions)} ELSE {})
    /\ level = "none"
    /\ direction = "None"
    /\ body = <<>>
    /\ result = NotCalled
    /\ dir_held_player = "None"
    /\ hist = <<>>
    /\ set_args = NoArgs
    /\ pencil = <<>>
    /\ events = <<>>
    /\ running = TRUE

\* One call grid.set(coord, cell).
SetCall(coord, cell) ==
    /\ set_args = NoArgs
    /\ set_args' = [coord |-> coord, cell |-> cell]
    /\ cells' = GridSet(cells, dimensions, coord, cell).cells
    /\ result' = IF GridSet(cells, dimensions, coord, cell).ok
                 THEN Ok
                 ELSE Err("OutOfBounds", <<>>, <<>>)
    /\ UNCHANGED <<dimensions, direction, body, dir_held_player, hist, level,
                   pencil, events, running>>

\* One call grid.draw(pencil).
DrawCall ==
    /\ pencil' = GridDraw(cells, dimensions)
    /\ UNCHANGED <<dimensions, cells, direction, body, result, dir_held_player,
                   hist, level, set_args, events, running>>

NextGrid ==
    \/ \E coord \in SetCoords(dimensions), cell \in Cell : SetCall(coord, cell)
    \/ DrawCall

SpecGrid == InitGrid /\ [][NextGrid]_vars

(***************************************************************************)
(* The host: main builds the level for the window's size, then runs one    *)
(* frame after another on the key events that arrived since the last one.  *)
(***************************************************************************)
\* The sizes (size.x, size.y) of the window less (1, 1).
WindowSizes == {<<3, 2>>, <<4, 2>>, <<5, 3>>}

\* main: the dimensions (max_x, max_y, max_z) for a window size.
MainDimensions(size) == <<size[1] \div 2, size[1] \div 2, size[2]>>

InitHost ==
    /\ \E size \in WindowSizes : dimensions = MainDimensions(size)
    /\ cells = GameStateNew(<<0, 0, 1>>, MainGrid(dimensions)).cells
    /\ direction = GameStateNew(<<0, 0, 1>>, MainGrid(dimensions)).direction
    /\ body = GameStateNew(<<0, 0, 1>>, MainGrid(dimensions)).body
    /\ level = "main"
    /\ result = NotCalled
    /\ dir_held_player = "None"
    /\ hist = <<>>
    /\ set_args = NoArgs
    /\ pencil = <<>>
    /\ events = <<>>
    /\ running = TRUE

\* The game is over: game.update(dir).expect("PERDU") has panicked.
Lost == result.kind \notin {"NotCalled", "Ok"}

\* A key is pressed or released between two frames.
KeyArrives(e) ==
    /\ running /\ ~Lost
    /\ Len(events) < MaxEvents
    /\ events' = Append(events, e)
    /\ UNCHANGED <<dimensions, cells, direction, body, result, dir_held_player,
                   hist, level, set_args, pencil, running>>

\* KeyEvent::pressed
pressed(e) == IF e.kind = "Pressed" THEN e.key ELSE "None"

\* impl From<Key> for Direction
DirectionFrom(key) ==
    CASE key = "Up"    -> "North"
      [] key = "Down"  -> "South"
      [] key = "Left"  -> "West"
      [] key = "Right" -> "East"
      [] key = "Space" -> "Up"
      [] OTHER         -> "None"

\* main: last_key_events().iter().rev().find_map(|event| event.pressed())
\*         .unwrap_or(Key::Unknown)
RECURSIVE LastPressed(_)
LastPressed(evs) ==
    IF evs = <<>>
    THEN "Unknown"
    ELSE IF pressed(evs[Len(evs)]) # "None"
         THEN pressed(evs[Len(evs)])
         ELSE LastPressed(SubSeq(evs, 1, Len(evs) - 1))

\* main: some event of the frame is Pressed(Esc), so app_state.stop() is called.
EscPressed(evs) == \E i \in 1..Len(evs) : evs[i] = [kind |-> "Pressed", key |-> "Esc"]

\* One frame of app.run's closure: the stop on Esc, the direction of the frame,
\* the update of the game and, unless that panicked, the drawing of the game.
Frame ==
    /\ running /\ ~Lost
    /\ Update(DirectionFrom(LastPressed(events)))
    /\ running' = ~EscPressed(events)
    /\ events' = <<>>
    /\ pencil' = IF result'.kind = "Ok"
                 THEN GameDraw(cells', dimensions', body')
                 ELSE pencil
    /\ UNCHANGED <<hist, set_args>>

NextHost ==
    \/ \E e \in KeyEvent : KeyArrives(e)
    \/ Frame

SpecHost == InitHost /\ [][NextHost]_vars

(***************************************************************************)
(* Vocabulary of the claims about update.  In a step that is an update     *)
(* call, the unprimed variables are the game before the call and the       *)
(* primed ones the game after it; direction' is the heading the call       *)
(* resolved, whatever it returned.                                         *)
(***************************************************************************)
\* The step is a call of update.
UpdateCalled == \E d \in Direction : Update(d)

\* The step is a call of update that returned `kind`.
UpdateReturns(kind) == UpdateCalled /\ result'.kind = kind

\* The destination of the call: head + heading.
Destination == Add(snake_head(body), direction')

\* The cell types the call found at the destination and directly below it.
DestinationCell == GridGet(cells, dimensions, Destination)

BelowCell == GridGet(cells, dimensions, Add(Destination, "Down"))

\* The call made a growing move (move_to with growing = true).
Grew == /\ DestinationCell \in {"Empty", "Food"}
        /\ FallCell(DestinationCell, BelowCell) = "Food"

\* The coordinate at the back of the body.
Back(b) == b[Len(b)]

\* The coordinates of a body.
Coords(b) == {b[i] : i \in 1..Len(b)}

\* The first k inputs of the scenario.
Played(k) == SubSeq(ScenarioInputs, 1, k)

(***************************************************************************)
(* C1.  On the 5 x 5 x 2 level (Block on all of z = 0, Food at (2,2,1),    *)
(* Empty elsewhere, snake created at (0,0,1) with heading None) the inputs *)
(* East, East, South, South all return Ok; the head is (1,0,1) after the   *)
(* first and (2,0,1) after the second, the body one long both times; after *)
(* the fourth the head is (2,2,1), the body is two long and the cell       *)
(* (2,2,1) is Empty.                                                       *)
(***************************************************************************)
C1_Scenario ==
    level = "scenario" =>
        /\ hist = Played(0) =>
              /\ dimensions = <<5, 5, 2>>
              /\ body = << <<0, 0, 1>> >> /\ direction = "None"
              /\ \A x \in 0..4, y \in 0..4 :
                    /\ GridGet(cells, dimensions, <<x, y, 0>>) = "Block"
                    /\ GridGet(cells, dimensions, <<x, y, 1>>) =
                          IF <<x, y>> = <<2, 2>> THEN "Food" ELSE "Empty"
        /\ hist = Played(1) =>
              /\ result.kind = "Ok"
              /\ snake_head(body) = <<1, 0, 1>> /\ Len(body) = 1
        /\ hist = Played(2) =>
              /\ result.kind = "Ok"
              /\ snake_head(body) = <<2, 0, 1>> /\ Len(body) = 1
        /\ hist = Played(3) => result.kind = "Ok"
        /\ hist = Played(4) =>
              /\ result.kind = "Ok"
              /\ snake_head(body) = <<2, 2, 1>> /\ Len(body) = 2
              /\ GridGet(cells, dimensions, <<2, 2, 1>>) = "Empty"

C1_Witness ==
    /\ level = "scenario" /\ hist = Played(4)
    /\ result.kind = "Ok" /\ Len(body) = 2

(***************************************************************************)
(* C2.  As claimed: on the same level, after East, East, South, South the  *)
(* next update(East) returns the Fell error.                               *)
(***************************************************************************)
C2_Original ==
    (level = "scenario" /\ hist = Played(5)) => result.kind = "Fell"

\* C2, amended.  On the same level, after East, East, South, South the next
\* update(East) returns Ok: the destination (3,2,1) is Empty and stands on the
\* Block (3,2,0), so the snake moves there, its body still two long.
C2_Amended ==
    (level = "scenario" /\ hist = Played(5)) =>
        /\ result.kind = "Ok"
        /\ body = << <<3, 2, 1>>, <<2, 2, 1>> >>
        /\ GridGet(cells, dimensions, <<3, 2, 0>>) = "Block"

C2_Witness ==
    /\ level = "scenario" /\ hist = Played(5)
    /\ dir_held_player = "East" /\ snake_head(body) = <<3, 2, 1>>

(***************************************************************************)
(* C3.  As claimed: whenever update returns Collision, the snake (its body *)
(* and its heading) and the grid are exactly as they were before the call. *)
(***************************************************************************)
C3_Original ==
    [][UpdateReturns("Collision") =>
          /\ body' = body
          /\ direction' = direction
          /\ cells' = cells /\ dimensions' = dimensions]_vars

\* C3, amended.  Whenever update returns Collision, the snake's body and the
\* grid are exactly as they were before the call; the heading is the input
\* direction when that is not None and is unchanged only when it is None.
C3_Amended ==
    [][UpdateReturns("Collision") =>
          /\ body' = body
          /\ cells' = cells /\ dimensions' = dimensions
          /\ direction' = IF dir_held_player' = "None"
                          THEN direction ELSE dir_held_player']_vars

C3_Witness ==
    /\ result.kind = "Collision"
    /\ dir_held_player # "None" /\ direction = dir_held_player
    /\ Len(body) > 1

(***************************************************************************)
(* C4.  Whenever update returns Ok and the destination f = head + heading  *)
(* held Food before the call, the body is exactly one longer after the     *)
(* call and the grid cell at f is Empty.                                   *)
(***************************************************************************)
C4_Growth ==
    [][(UpdateReturns("Ok") /\ DestinationCell = "Food") =>
          /\ Len(body') = Len(body) + 1
          /\ GridGet(cells', dimensions, Destination) = "Empty"]_vars

(***************************************************************************)
(* C5.  As claimed: whenever update returns Ok without growing the snake,  *)
(* the body is as long as before the call and the coordinate that was the  *)
(* tail before the call is no longer in the body.                          *)
(***************************************************************************)
C5_Original ==
    [][(UpdateReturns("Ok") /\ ~Grew) =>
          /\ Len(body') = Len(body)
          /\ Back(body) \notin Coords(body')]_vars

\* C5, amended.  Whenever update returns Ok without growing the snake, the
\* body after the call is the destination followed by the body before the
\* call less its last element: it is as long as before, and the coordinate
\* that was the tail is no longer in it unless the destination is that very
\* coordinate or the body held it more than once.
C5_Amended ==
    [][(UpdateReturns("Ok") /\ ~Grew) =>
          /\ Len(body') = Len(body)
          /\ body' = <<Destination>> \o SubSeq(body, 1, Len(body) - 1)
          /\ (/\ Destination # Back(body)
              /\ \A i \in 1..(Len(body) - 1) : body[i] # Back(body))
                => Back(body) \notin Coords(body')]_vars

\* On the scenario level the snake cannot grow past two, so a body of two with
\* its head at (4,4,1) got there by moves that did not grow it.
C5_Witness ==
    /\ level = "scenario" /\ result.kind = "Ok"
    /\ Len(body) = 2 /\ snake_head(body) = <<4, 4, 1>>
    /\ body[1] = Add(body[2], direction)

(***************************************************************************)
(* C6.  If the destination head + heading is enterable (Empty or Food) and *)
(* no cell below it in its column (same x and y, smaller z) is Block,      *)
(* update returns Fell.                                                    *)
(***************************************************************************)
C6_NoBlockBelowFalls ==
    [][(/\ UpdateCalled
        /\ DestinationCell \in {"Empty", "Food"}
        /\ \A z \in 0..(Destination[3] - 1) :
              GridGet(cells, dimensions, <<Destination[1], Destination[2], z>>)
                # "Block")
          => result'.kind = "Fell"]_vars

(***************************************************************************)
(* C7.  Every error update returns (Collision, Fell and Cannibalism alike) *)
(* carries as head the head coordinate from before the move and as         *)
(* attempted_move the destination head + heading.                          *)
(***************************************************************************)
C7_ErrorFields ==
    [][(UpdateCalled /\ result'.kind \in {"Collision", "Fell", "Cannibalism"}) =>
          /\ result'.head = snake_head(body)
          /\ result'.attempted_move = Destination]_vars

(***************************************************************************)
(* C8.  Grid.set on a coordinate with a component below 0 or at or above   *)
(* the matching dimension returns an error and leaves every cell of the    *)
(* grid unchanged; on an in-bounds coordinate it returns Ok and changes    *)
(* exactly that one cell: it holds the value set, every other cell and the *)
(* dimensions are as before.                                               *)
(***************************************************************************)
\* Every coordinate of a grid of the given dimensions.
InBounds(dims) ==
    {<<x, y, z>> : x \in 0..(dims[1] - 1), y \in 0..(dims[2] - 1),
                   z \in 0..(dims[3] - 1)}

\* The stored cell of an in-bounds coordinate.
CellAt(cs, dims, coord) == cs[coord_to_index(dims, coord) + 1]

C8_SetBounds ==
    [][set_args' # set_args =>
          LET coord == set_args'.coord
              cell  == set_args'.cell
          IN  /\ dimensions' = dimensions /\ Len(cells') = Len(cells)
              /\ IF \E k \in 1..3 : coord[k] < 0 \/ coord[k] >= dimensions[k]
                 THEN /\ result'.kind = "OutOfBounds"
                      /\ cells' = cells
                 ELSE /\ result'.kind = "Ok"
                      /\ \A c \in InBounds(dimensions) :
                            CellAt(cells', dimensions, c) =
                              IF c = coord THEN cell
                              ELSE CellAt(cells, dimensions, c)]_vars

\* A set just past the end of the x axis was refused on a grid that holds a
\* floor and Food.
C8_Witness ==
    /\ level = "none" /\ set_args # NoArgs
    /\ set_args.coord = <<dimensions[1], 0, 0>>
    /\ result.kind = "OutOfBounds"
    /\ \E i \in 1..Len(cells) : cells[i] = "Food"

(***************************************************************************)
(* C9.  For positive dimensions (mx, my, mz), every in-bounds coordinate c *)
(* has coord_to_index(c) = z*my*mx + y*mx + x in [0, mx*my*mz) and         *)
(* index_to_coord(coord_to_index(c)) = c, and every index in               *)
(* [0, mx*my*mz) is the index of exactly one in-bounds coordinate.         *)
(***************************************************************************)
C9_Bijection ==
    LET mx == dimensions[1]
        my == dimensions[2]
        mz == dimensions[3]
    IN  /\ mx > 0 /\ my > 0 /\ mz > 0
        /\ \A c \in InBounds(dimensions) :
              /\ coord_to_index(dimensions, c) = c[3] * my * mx + c[2] * mx + c[1]
              /\ coord_to_index(dimensions, c) \in 0..(mx * my * mz - 1)
              /\ index_to_coord(dimensions, coord_to_index(dimensions, c)) = c
        /\ \A idx \in 0..(mx * my * mz - 1) :
              /\ index_to_coord(dimensions, idx) \in InBounds(dimensions)
              /\ Cardinality({c \in InBounds(dimensions) :
                                coord_to_index(dimensions, c) = idx}) = 1

\* A grid whose three dimensions are not all equal was drawn: its last cell is
\* the coordinate (mx-1, my-1, mz-1).
C9_Witness ==
    /\ level = "none" /\ dimensions[1] # dimensions[2] /\ dimensions[3] > 1
    /\ pencil # <<>>
    /\ pencil[Len(pencil)].at =
          coord_to_screen(<<dimensions[1] - 1, dimensions[2] - 1, dimensions[3] - 1>>)

(***************************************************************************)
(* C10.  In every frame the direction passed to update is the one mapped   *)
(* from the most recent press of a directional key (the arrows or space)   *)
(* among the frame's key events, whatever other keys were pressed in the   *)
(* same frame, and is None when no directional key was pressed.            *)
(***************************************************************************)
\* The keys that map to a direction.
DirectionalKeys == {"Up", "Down", "Left", "Right", "Space"}

\* The most recent press of a directional key, mapped; None without one.
RECURSIVE LastDirectionalPress(_)
LastDirectionalPress(evs) ==
    IF evs = <<>>
    THEN "None"
    ELSE IF evs[Len(evs)].kind = "Pressed" /\ evs[Len(evs)].key \in DirectionalKeys
         THEN CASE evs[Len(evs)].key = "Up"    -> "North"
                [] evs[Len(evs)].key = "Down"  -> "South"
                [] evs[Len(evs)].key = "Left"  -> "West"
                [] evs[Len(evs)].key = "Right" -> "East"
                [] evs[Len(evs)].key = "Space" -> "Up"
         ELSE LastDirectionalPress(SubSeq(evs, 1, Len(evs) - 1))

C10_LastDirectionalKey ==
    [][Frame => dir_held_player' = LastDirectionalPress(events)]_vars

(***************************************************************************)
(* C11.  update returns Collision if and only if the destination, the head *)
(* plus the heading, is out of bounds, holds Void or holds Block.  The     *)
(* test comes first, so such a move yields neither Fell nor Cannibalism.   *)
(***************************************************************************)
\* The destination is out of bounds or its stored cell is Void or Block.
Blocked ==
    \/ Destination \notin InBounds(dimensions)
    \/ CellAt(cells, dimensions, Destination) \in {"Void", "Block"}

C11_CollisionFirst ==
    [][UpdateCalled => (result'.kind = "Collision" <=> Blocked)]_vars

\* A Collision on an in-bounds Void cell has been returned.
C11_Witness ==
    /\ result.kind = "Collision"
    /\ result.attempted_move \in InBounds(dimensions)
    /\ CellAt(cells, dimensions, result.attempted_move) = "Void"
    /\ Len(body) >= 2

(***************************************************************************)
(* C12.  update returns Fell if and only if the destination, the head plus *)
(* the heading, is in bounds and holds Empty or Food while the cell        *)
(* directly below it (z - 1) is out of bounds or holds Void.               *)
(***************************************************************************)
\* The coordinate directly below the destination.
Lower == <<Destination[1], Destination[2], Destination[3] - 1>>

\* Nothing is below the destination: out of bounds, or a stored Void.
NothingBelow ==
    \/ Lower \notin InBounds(dimensions)
    \/ CellAt(cells, dimensions, Lower) = "Void"

C12_FellIff ==
    [][UpdateCalled =>
          (result'.kind = "Fell" <=>
              /\ Destination \in InBounds(dimensions)
              /\ CellAt(cells, dimensions, Destination) \in {"Empty", "Food"}
              /\ NothingBelow)]_vars

\* Fell has been returned for a destination over an in-bounds Void cell, by a
\* snake that had grown.
C12_Witness ==
    /\ result.kind = "Fell"
    /\ result.attempted_move[3] >= 1
    /\ CellAt(cells, dimensions,
              <<result.attempted_move[1], result.attempted_move[2],
                result.attempted_move[3] - 1>>) = "Void"
    /\ Len(body) >= 2

(***************************************************************************)
(* C13.  When update returns Fell, the snake body and the grid are as      *)
(* before the call.  When update returns Cannibalism the move is already   *)
(* committed: the destination is the front of the body, the old tail has   *)
(* been popped unless the move was a growing one, and a Food cell eaten at *)
(* the destination is already Empty.                                       *)
(***************************************************************************)
\* b without its last coordinate.
PopBack(b) == SubSeq(b, 1, Len(b) - 1)

C13_ErrorEffects ==
    [][/\ UpdateReturns("Fell") => body' = body /\ cells' = cells
       /\ UpdateReturns("Cannibalism") =>
             /\ body' = <<Destination>> \o (IF Grew THEN body ELSE PopBack(body))
             /\ Grew => CellAt(cells', dimensions, Destination) = "Empty"
             /\ \A c \in InBounds(dimensions) \ {Destination} :
                    CellAt(cells', dimensions, c) = CellAt(cells, dimensions, c)
      ]_vars

\* Cannibalism has been returned by a growing move: the head stands on the
\* destination, directly over Food, and the body holds the destination twice.
C13_Witness ==
    /\ result.kind = "Cannibalism"
    /\ body[1] = result.attempted_move
    /\ \E i \in 2..Len(body) : body[i] = body[1]
    /\ GridGet(cells, dimensions, Add(body[1], "Down")) = "Food"
    /\ Len(body) >= 3

(***************************************************************************)
(* C14.  After update(d) the snake's heading is d when d is not None and   *)
(* is as before when d is None, whether update returned Ok or an error.    *)
(* The destination tried in that tick is the old head plus that heading,   *)
(* so with heading None and input None it is the head's own cell.          *)
(***************************************************************************)
\* The heading update(d) is to leave, d being the input just given.
HeadingAfter ==
    IF dir_held_player' = "None" THEN direction ELSE dir_held_player'

\* The destination the call tried: the new head of a committed move, the
\* attempted_move of a Collision or a Fell.
Tried ==
    IF result'.kind \in {"Ok", "Cannibalism"}
    THEN snake_head(body')
    ELSE result'.attempted_move

C14_Heading ==
    [][UpdateCalled =>
          /\ direction' = HeadingAfter
          /\ Tried = Add(snake_head(body), HeadingAfter)
          /\ HeadingAfter = "None" => Tried = snake_head(body)]_vars

\* A snake of two or more has moved on under an input of None, keeping the
\* heading of an earlier call.
C14_Witness ==
    /\ dir_held_player = "None"
    /\ direction # "None"
    /\ result.kind = "Ok"
    /\ Len(body) >= 2
    /\ body[1] = Add(body[2], direction)

(***************************************************************************)
(* C15.  When the destination, the head plus the heading, holds Empty or   *)
(* Food and the cell directly below it holds Empty or Food (the snake is   *)
(* unsupported), update decides between a plain and a growing move from    *)
(* the lower cell's type; yet the new head is the destination itself, not  *)
(* the lower cell, and only the destination cell, never the lower one, is  *)
(* reset to Empty.                                                         *)
(***************************************************************************)
\* The destination and the cell below it are in bounds and hold Empty or Food.
Unsupported ==
    /\ Destination \in InBounds(dimensions)
    /\ CellAt(cells, dimensions, Destination) \in {"Empty", "Food"}
    /\ Lower \in InBounds(dimensions)
    /\ CellAt(cells, dimensions, Lower) \in {"Empty", "Food"}

C15_UnsupportedMove ==
    [][(UpdateCalled /\ Unsupported) =>
          LET growing == CellAt(cells, dimensions, Lower) = "Food"
          IN  /\ result'.kind \in {"Ok", "Cannibalism"}
              /\ body' = <<Destination>> \o (IF growing THEN body ELSE PopBack(body))
              /\ cells' = IF growing
                          THEN [cells EXCEPT ![coord_to_index(dimensions, Destination) + 1] = "Empty"]
                          ELSE cells
              /\ CellAt(cells', dimensions, Lower) = CellAt(cells, dimensions, Lower)
      ]_vars

\* The snake has grown by entering an Empty cell over Food: the head is on
\* the destination, the Food below it is still there.
C15_Witness ==
    /\ result.kind = "Ok"
    /\ level = "tower"
    /\ body = <<<<1, 0, 1>>, <<0, 0, 1>>>>
    /\ CellAt(cells, dimensions, <<1, 0, 0>>) = "Food"
    /\ cells = TowerCells

(***************************************************************************)
(* C16.  Whatever the grid holds and wherever the snake is, update never   *)
(* reaches its unreachable!() branch and its grid.set call never fails:    *)
(* the cell type resolved after the gravity step is always Empty or Food,  *)
(* so update ends only with Ok, Collision, Fell or Cannibalism.            *)
(***************************************************************************)
C16_FourOutcomes ==
    [][UpdateCalled =>
          /\ result'.kind \in {"Ok", "Collision", "Fell", "Cannibalism"}
          /\ result'.kind \in {"Ok", "Cannibalism"} =>
                FallCell(DestinationCell, BelowCell) \in {"Empty", "Food"}]_vars

\* On a small level with a Block in it, a snake grown to three has made a
\* move that returned Ok.
C16_Witness ==
    /\ level = "small"
    /\ result.kind = "Ok"
    /\ "Block" \in {cells[i] : i \in 1..Len(cells)}
    /\ Len(body) >= 3

(***************************************************************************)
(* C17.  After any sequence of update calls, whatever each returned, on a  *)
(* game created with GameState::new, the snake body holds at least one     *)
(* coordinate, so head() never meets an empty body.                        *)
(***************************************************************************)
C17_BodyNonEmpty == Len(body) >= 1

\* A snake of one has crossed the cube level by plain moves, then was
\* refused a move: its body is the one coordinate it reached.
C17_Witness ==
    /\ level = "cube"
    /\ result.kind = "Collision"
    /\ body = << <<2, 2, 1>> >>

(***************************************************************************)
(* C18.  From GameState::new, after update calls that all returned Ok the  *)
(* coordinates of the snake body are pairwise distinct: a committed move   *)
(* returns Cannibalism exactly when the body after the move (after the     *)
(* tail pop of a plain move) holds some coordinate more than once, and Ok  *)
(* otherwise.                                                              *)
(***************************************************************************)
\* No coordinate occurs twice in b.
Distinct(b) == Cardinality(Coords(b)) = Len(b)

\* The body a committed move leaves, from the body before it.
Committed == <<Destination>> \o (IF Grew THEN body ELSE PopBack(body))

C18_DistinctBody ==
    [][UpdateCalled =>
          /\ result'.kind = "Ok" => Distinct(body') /\ body' = Committed
          /\ result'.kind = "Cannibalism" => ~Distinct(body') /\ body' = Committed
          /\ result'.kind \in {"Collision", "Fell"} => body' = body]_vars

\* After calls that all returned Ok the snake is three long, on three
\* coordinates.
C18_Witness ==
    /\ level = "cube"
    /\ result.kind = "Ok"
    /\ Len(body) = 3
    /\ Cardinality(Coords(body)) = 3

(***************************************************************************)
(* C19.  Every update that lengthens the snake body reduces the number of  *)
(* Food cells in the grid by exactly one, so on a level the body length    *)
(* minus one never exceeds the number of Food cells the grid held at the   *)
(* start.                                                                  *)
(***************************************************************************)
\* The number of Food cells of a grid.
FoodCount(cs) == Cardinality({i \in 1..Len(cs) : cs[i] = "Food"})

C19_GrowthEatsFood ==
    /\ [][(UpdateCalled /\ Len(body') > Len(body)) =>
              FoodCount(cells') = FoodCount(cells) - 1]_vars
    /\ [](level \in DOMAIN Levels =>
              Len(body) - 1 <= FoodCount(Levels[level].cells))

(***************************************************************************)
(* C20.  Each update call changes at most one grid cell, the destination   *)
(* (the head plus the heading), and only from Food to Empty.  So across    *)
(* any sequence of updates no Block or Void cell changes, no cell becomes  *)
(* Food, and the grid's dimensions and its number of cells stay as they    *)
(* were.                                                                   *)
(***************************************************************************)
C20_GridFrame ==
    [][UpdateCalled =>
          /\ dimensions' = dimensions
          /\ Len(cells') = Len(cells)
          /\ \A i \in 1..Len(cells) :
                 cells'[i] # cells[i] =>
                     /\ Destination \in InBounds(dimensions)
                     /\ i = coord_to_index(dimensions, Destination) + 1
                     /\ cells[i] = "Food"
                     /\ cells'[i] = "Empty"]_vars

\* The one Food cell of the cube level has been eaten: the grid differs from
\* the level's in that cell only, which is Empty.
C20_Witness ==
    /\ level = "cube"
    /\ result.kind = "Ok"
    /\ body[1] = <<1, 1, 1>>
    /\ cells = [Levels.cube.cells EXCEPT
                   ![coord_to_index(dimensions, <<1, 1, 1>>) + 1] = "Empty"]
    /\ Levels.cube.cells[coord_to_index(dimensions, <<1, 1, 1>>) + 1] = "Food"

====
